---- MODULE Spec2Model ----
(***************************************************************************)
(* State-machine model of py_xiaomi_walkingpad: AsyncWalkingPadService     *)
(* (service.py), AsyncEventBus (event_bus.py) and the synchronous          *)
(* WalkingPadAdapter (miio_adapter.py).                                    *)
(*                                                                         *)
(* One asyncio event loop runs the interactive callers, the polling tasks, *)
(* the callers of stop_polling and the event consumers; an action is the   *)
(* code one task runs between two suspension points.  Blocking adapter     *)
(* calls run on worker threads (asyncio.to_thread) and finish on their own.*)
(***************************************************************************)
EXTENDS Integers, Sequences, FiniteSets

(* ------------------------------ bounds --------------------------------- *)
\* total number of gate-mediated calls issued in one behaviour
MaxOps == 2

\* largest reading of the monotonic clock where durations are measured
MaxClock == 2

\* tasks issuing interactive operations
Callers == {"c1", "c2"}
\* identities available for polling tasks (asyncio.create_task results)
Pollers == {"p1", "p2"}
\* tasks calling stop_polling
Stoppers == {"s1"}
\* event stream handles
Subs == {"q1", "q2"}
Tasks == Callers \cup Pollers

None == "None"
\* latest_status before the first successful read
Unset == "unset"

(* ------------------------------ inputs --------------------------------- *)
\* speeds in tenths of km/h: -0.1, 3.0, 6.1
Speeds == {-1, 30, 61}
\* PadStatus values the adapter can map a device reply to
StatusVals == {"st1", "st2"}
\* what one device round trip does: reply, or raise
RawReplies == {"ok", "KeyError", "DeviceException", "WalkingpadException"}
\* device round trips of the longest adapter method (start: run, on, run)
MaxIO == 3

PlainCommands == {"start", "stop", "power_on", "power_off", "lock", "unlock"}
CommandNames == PlainCommands \cup
                {"set_speed", "set_start_speed", "set_mode", "set_sensitivity"}

\* an operation of the service with the arguments its outcome depends on
\* (the mode and sensitivity arguments are passed through to the device)
Req(name, quick, speed) == [name |-> name, quick |-> quick, speed |-> speed]

StatusReq(quick) == Req("get_status", quick, 0)

Requests ==
    {StatusReq(q) : q \in BOOLEAN}
    \cup {Req(n, FALSE, 0) : n \in PlainCommands \cup {"set_mode", "set_sensitivity"}}
    \cup {Req(n, FALSE, v) : n \in {"set_speed", "set_start_speed"}, v \in Speeds}

\* the operation whose events the hub distributes to two consumers
HubRequests == {Req("stop", FALSE, 0)}

\* the operations issued while callers, poller and consumers run concurrently
CoreRequests ==
    {StatusReq(q) : q \in BOOLEAN} \cup {Req("stop", FALSE, 0)}

(* ------------------------------ adapter -------------------------------- *)
\* outcome of a blocking call: a value, or a raised exception
Ok(v) == [kind |-> "ok", val |-> v, exc |-> "", msg |-> ""]
Raise(e, m) == [kind |-> "err", val |-> "", exc |-> e, msg |-> m]
\* str(exc) of an exception raised by the device library
DeviceMsg == "device"
NoOut == [kind |-> "none", val |-> "", exc |-> "", msg |-> ""]

\* WalkingPadAdapter._run_command
AdapterRunCommand(command, reply) ==
    CASE reply = "WalkingpadException" -> Raise("CommandValidationError", DeviceMsg)
      [] reply = "DeviceException" -> Raise("DeviceCommunicationError", DeviceMsg)
      [] reply = "KeyError" -> Raise("KeyError", DeviceMsg)
      [] OTHER -> Ok(command)

\* WalkingPadAdapter.status
AdapterStatus(quick, replies, v) ==
    CASE replies[1] = "ok" -> Ok(v)
      [] replies[1] = "KeyError" ->
            IF replies[2] = "ok" THEN Ok(v)
            ELSE Raise("DeviceCommunicationError", DeviceMsg)
      [] OTHER -> Raise("DeviceCommunicationError", DeviceMsg)

\* WalkingPadAdapter.start
AdapterStart(replies) ==
    CASE replies[1] = "ok" -> Ok("start")
      [] replies[1] = "KeyError" -> Raise("KeyError", DeviceMsg)
      [] OTHER ->
            LET on == AdapterRunCommand("power_on", replies[2])
                run == AdapterRunCommand("start", replies[3])
            IN  IF on.kind = "err" THEN on
                ELSE IF run.kind = "err" THEN run
                ELSE Ok("start")

SpeedInRange(v) == ~(v < 0 \/ v > 60)

\* WalkingPadAdapter.set_speed / set_start_speed
AdapterSetSpeed(command, v, reply) ==
    IF ~SpeedInRange(v)
    THEN Raise("CommandValidationError",
               IF command = "set_speed" THEN "speed_kmh must be between 0 and 6"
               ELSE "start_speed_kmh must be between 0 and 6")
    ELSE AdapterRunCommand(command, reply)

\* the blocking callable the service hands to asyncio.to_thread
AdapterCall(req, replies, v) ==
    CASE req.name = "get_status" -> AdapterStatus(req.quick, replies, v)
      [] req.name = "start" -> AdapterStart(replies)
      [] req.name \in {"set_speed", "set_start_speed"} ->
            AdapterSetSpeed(req.name, req.speed, replies[1])
      [] OTHER -> AdapterRunCommand(req.name, replies[1])

\* number of device round trips the adapter method makes
IOCount(req, replies) ==
    CASE req.name = "get_status" -> IF replies[1] = "KeyError" THEN 2 ELSE 1
      [] req.name = "start" ->
            IF replies[1] \in {"ok", "KeyError"} THEN 1
            ELSE IF replies[2] = "ok" THEN 3 ELSE 2
      [] req.name \in {"set_speed", "set_start_speed"} ->
            IF SpeedInRange(req.speed) THEN 1 ELSE 0
      [] OTHER -> 1

\* the device's behaviour during one adapter call: one reply per round trip
\* made ("ok" stands in the unused positions); a missing field (KeyError)
\* arises only when a status reply is parsed
DeviceScripts(req) ==
    {r \in [1..MaxIO -> RawReplies] :
        /\ \A i \in 1..MaxIO : i > IOCount(req, r) => r[i] = "ok"
        /\ req.name # "get_status" => \A i \in 1..MaxIO : r[i] # "KeyError"}

(* ------------------------------ events --------------------------------- *)
\* `call' is the number of the gate-mediated call the event belongs to
Event(type, operation, success, status, quick, result, msg, call) ==
    [type |-> type, operation |-> operation, success |-> success,
     status |-> status, quick |-> quick, result |-> result, msg |-> msg,
     call |-> call]

OperationTimingEvent(operation, success, call) ==
    Event("OperationTiming", operation, success, "", FALSE, "", "", call)
ErrorEvent(operation, msg, call) ==
    Event("Error", operation, FALSE, "", FALSE, "", msg, call)
StatusUpdatedEvent(status, quick, call) ==
    Event("StatusUpdated", "", TRUE, status, quick, "", "", call)
CommandExecutedEvent(result, call) ==
    Event("CommandExecuted", "", TRUE, "", FALSE, result, "", call)

(* ------------------------------ configuration -------------------------- *)
\* os.getenv of a variable that is not set
EnvUnset == "<unset>"

\* texts an environment variable may hold
IpTexts == {EnvUnset, " ", "192.168.1.10"}
TokenTexts == {EnvUnset, "", "abc123"}
ModelTexts == {EnvUnset, "ksmb.walkingpad.v2"}
NumberTexts == {EnvUnset, " ", "abc", "0", "-1", " 1.5 ", "nan", "inf"}

Envs ==
    [WALKINGPAD_IP : IpTexts, WALKINGPAD_TOKEN : TokenTexts,
     WALKINGPAD_MODEL : ModelTexts, WALKINGPAD_POLLING_INTERVAL : NumberTexts,
     WALKINGPAD_REQUEST_TIMEOUT : NumberTexts]

\* the environment of the process that runs the service
ServiceEnv ==
    [WALKINGPAD_IP |-> "192.168.1.10", WALKINGPAD_TOKEN |-> "abc123",
     WALKINGPAD_MODEL |-> EnvUnset, WALKINGPAD_POLLING_INTERVAL |-> EnvUnset,
     WALKINGPAD_REQUEST_TIMEOUT |-> EnvUnset]

\* os.getenv(name, default)
GetEnv(raw, default) == IF raw = EnvUnset THEN default ELSE raw

\* str.strip() on the texts above
Strip(text) ==
    CASE text = " " -> ""
      [] text = " 1.5 " -> "1.5"
      [] OTHER -> text

\* a Python float: a finite number in tenths, nan, or inf
Float(kind, tenths) == [kind |-> kind, tenths |-> tenths]
ValueError == Float("ValueError", 0)

\* float(text) on the stripped texts above and on the defaults
ParseFloat(text) ==
    CASE text = "0" -> Float("num", 0)
      [] text = "-1" -> Float("num", -10)
      [] text = "1.0" -> Float("num", 10)
      [] text = "1.5" -> Float("num", 15)
      [] text = "5.0" -> Float("num", 50)
      [] text = "nan" -> Float("nan", 0)
      [] text = "inf" -> Float("inf", 0)
      [] OTHER -> ValueError

\* x <= 0 and x > 0 on a Python float: every comparison with nan is false
FloatLeqZero(x) == x.kind = "num" /\ x.tenths <= 0
FloatGtZero(x) == (x.kind = "num" /\ x.tenths > 0) \/ x.kind = "inf"

NotLoaded == [kind |-> "none", ip |-> "", token |-> "", model |-> "",
              polling |-> Float("num", 0), timeout |-> Float("num", 0),
              msg |-> <<>>]

AppConfig(ip, token, model, polling, timeout) ==
    [kind |-> "ok", ip |-> ip, token |-> token, model |-> model,
     polling |-> polling, timeout |-> timeout, msg |-> <<>>]

ConfigurationError(msg) == [NotLoaded EXCEPT !.kind = "err", !.msg = msg]

\* `... .strip() or default'
StripOr(text, default) == IF Strip(text) = "" THEN default ELSE Strip(text)

\* load_config: the list `missing'
MissingVariables(ip, token) ==
    (IF ip = "" THEN <<"WALKINGPAD_IP">> ELSE <<>>) \o
    (IF token = "" THEN <<"WALKINGPAD_TOKEN">> ELSE <<>>)

\* infra/config.py load_config
load_config(e) ==
    LET ip == Strip(GetEnv(e.WALKINGPAD_IP, ""))
        token == Strip(GetEnv(e.WALKINGPAD_TOKEN, ""))
        model == StripOr(GetEnv(e.WALKINGPAD_MODEL, "ksmb.walkingpad.v1"),
                         "ksmb.walkingpad.v1")
        polling_interval_raw ==
            StripOr(GetEnv(e.WALKINGPAD_POLLING_INTERVAL, "1.0"), "1.0")
        request_timeout_raw ==
            StripOr(GetEnv(e.WALKINGPAD_REQUEST_TIMEOUT, "5.0"), "5.0")
        missing == MissingVariables(ip, token)
        polling_interval == ParseFloat(polling_interval_raw)
        request_timeout == ParseFloat(request_timeout_raw)
    IN  IF missing # <<>>
        THEN ConfigurationError(<<"Missing required environment variables">> \o missing)
        ELSE IF polling_interval = ValueError
        THEN ConfigurationError(<<"WALKINGPAD_POLLING_INTERVAL must be a number">>)
        ELSE IF FloatLeqZero(polling_interval)
        THEN ConfigurationError(<<"WALKINGPAD_POLLING_INTERVAL must be > 0">>)
        ELSE IF request_timeout = ValueError
        THEN ConfigurationError(<<"WALKINGPAD_REQUEST_TIMEOUT must be a number">>)
        ELSE IF FloatLeqZero(request_timeout)
        THEN ConfigurationError(<<"WALKINGPAD_REQUEST_TIMEOUT must be > 0">>)
        ELSE AppConfig(ip, token, model, polling_interval, request_timeout)

(* ------------------------------ state ---------------------------------- *)
VARIABLES
    pc,             \* per task: where it is suspended
    cur,            \* per task: number of the call it is executing, 0 if none
    fut,            \* per task: the asyncio.to_thread future it awaits
    res,            \* per task: outcome the worker thread produced
    wfut,           \* per task: its waiter future in _io_lock._waiters
    waiters,        \* _io_lock._waiters, in arrival order
    io_locked,      \* _io_lock._locked
    mustCancel,     \* per task: cancel() requested, not yet delivered
    orphans,        \* worker threads still running an adapter call whose
                    \* awaiting task is gone
    latest_status,  \* AsyncWalkingPadService._latest_status
    polling_task,   \* AsyncWalkingPadService._polling_task
    stopAwait,      \* per stop_polling caller: the task it awaits
    calls,          \* history: every gate-mediated call issued so far
    log,            \* history: every event published, in publish order
    subscribers,    \* AsyncEventBus._subscribers
    sub,            \* per stream handle: state of the async generator
    recv,           \* per stream handle: events put into its queue so far
    everCancelled,  \* history: some task was cancelled
    taken,          \* per stream handle: number of events it has yielded
    joinedAt,       \* history: Len(log) when the handle's queue was added
    leftAt,         \* history: Len(log) when the handle's queue was discarded
    lastCtl,        \* history: the last start_polling / stop_polling call
    env,            \* os.environ after load_dotenv()
    config,         \* what load_config() returned or raised, NotLoaded before
    budget,         \* gate-mediated calls that may still be issued
    now,            \* the last value time.perf_counter() returned
    horizon,        \* the largest value time.perf_counter() returns
    timing,         \* per call: the clock readings and durations of
                    \* _run_blocking (start, lock_wait_start, run_start,
                    \* wait_ms, run_ms, total_ms)
    fellBack,       \* history: the calls whose status read fell back to a
                    \* quick read inside the adapter (kept where it is
                    \* looked at)
    announced       \* history: _latest_status as it stood when the last
                    \* StatusUpdated was put into the queues

vars == <<pc, cur, fut, res, wfut, waiters, io_locked, mustCancel, orphans,
          latest_status, polling_task, stopAwait, calls, log, subscribers,
          sub, recv, everCancelled, taken, joinedAt, leftAt, lastCtl, env,
          config, budget, now, horizon, timing, fellBack, announced>>

lockVars == <<wfut, waiters, io_locked>>
threadVars == <<fut, res, orphans>>
pollVars == <<mustCancel, polling_task, stopAwait, everCancelled, lastCtl>>
busVars == <<subscribers, sub, taken, joinedAt, leftAt>>
confVars == <<env, config>>
clockVars == <<now, timing>>
boundVars == <<budget, horizon>>

\* AsyncWalkingPadService.__init__ ; AsyncEventBus.__init__
InitService ==
    /\ pc = [t \in Tasks |-> IF t \in Callers THEN "idle" ELSE "free"]
    /\ cur = [t \in Tasks |-> 0]
    /\ fut = [t \in Tasks |-> "none"]
    /\ res = [t \in Tasks |-> NoOut]
    /\ wfut = [t \in Tasks |-> "none"]
    /\ waiters = <<>>
    /\ io_locked = FALSE
    /\ mustCancel = [t \in Tasks |-> FALSE]
    /\ orphans = 0
    /\ latest_status = Unset
    /\ polling_task = None
    /\ stopAwait = [s \in Stoppers |-> None]
    /\ calls = <<>>
    /\ log = <<>>
    /\ subscribers = {}
    /\ sub = [q \in Subs |-> "none"]
    /\ recv = [q \in Subs |-> <<>>]
    /\ everCancelled = FALSE
    /\ taken = [q \in Subs |-> 0]
    /\ joinedAt = [q \in Subs |-> 0]
    /\ leftAt = [q \in Subs |-> 0]
    /\ lastCtl = "none"
    /\ now = 0
    /\ timing = <<>>
    /\ fellBack = {}
    /\ announced = Unset

\* the service built from a configuration that is not looked at again
Init ==
    /\ InitService
    /\ env = ServiceEnv
    /\ config = NotLoaded
    /\ budget = MaxOps
    /\ horizon = 0

(* ------------------------------ asyncio.Lock ---------------------------- *)
\* faulty variant: the fast path looks at the waiters only
LockFastPath_IgnoresLocked(locked, ws, wf) ==
    \A i \in 1..Len(ws) : wf[ws[i]] = "cancelled"

\* Lock.acquire, the branch that takes the lock without suspending
LockFastPath(locked, ws, wf) ==
    ~locked /\ \A i \in 1..Len(ws) : wf[ws[i]] = "cancelled"

\* faulty variant: release leaves the waiter futures alone
WakeUpFirst_Never(ws, wf) == wf

\* Lock._wake_up_first
WakeUpFirst(ws, wf) ==
    IF ws = <<>> THEN wf
    ELSE IF wf[Head(ws)] = "pending" THEN [wf EXCEPT ![Head(ws)] = "woken"]
    ELSE wf

RemoveWaiter(ws, t) == SelectSeq(ws, LAMBDA w : w # t)

(* ------------------------------ event bus ------------------------------- *)
\* AsyncEventBus.publish, for each event of evs in turn
\* faulty variant: one of the subscribers is handed the events the other
\* way round
Publish_ReversedForOne(evs) ==
    /\ log' = log \o evs
    /\ recv' = [q \in Subs |->
                  IF q \notin subscribers THEN recv[q]
                  ELSE IF q = CHOOSE x \in subscribers : TRUE
                  THEN recv[q] \o [i \in 1..Len(evs) |-> evs[Len(evs) + 1 - i]]
                  ELSE recv[q] \o evs]

\* faulty variant: new events are put in front of the queued ones
Publish_Prepends(evs) ==
    /\ log' = log \o evs
    /\ recv' = [q \in Subs |-> IF q \in subscribers THEN evs \o recv[q] ELSE recv[q]]

\* faulty variant: a queue that holds an event its consumer has not taken
\* yet is full, and put_nowait's QueueFull is swallowed
Publish_DropsOnBacklog(evs) ==
    /\ log' = log \o evs
    /\ recv' = [q \in Subs |->
                  IF q \in subscribers /\ taken[q] = Len(recv[q])
                  THEN recv[q] \o evs ELSE recv[q]]

Publish(evs) ==
    /\ log' = log \o evs
    /\ recv' = [q \in Subs |-> IF q \in subscribers THEN recv[q] \o evs ELSE recv[q]]

(* ------------------------------ service --------------------------------- *)
\* faulty variant: the events of _run_blocking are published once more
RunBlockingEvents_Twice(operation, out, call) ==
    IF out.kind = "ok"
    THEN <<OperationTimingEvent(operation, TRUE, call),
           OperationTimingEvent(operation, TRUE, call)>>
    ELSE <<OperationTimingEvent(operation, FALSE, call),
           ErrorEvent(operation, out.msg, call),
           OperationTimingEvent(operation, FALSE, call),
           ErrorEvent(operation, out.msg, call)>>

\* faulty variant: the Error is published before the failed timing
RunBlockingEvents_ErrorFirst(operation, out, call) ==
    IF out.kind = "ok"
    THEN <<OperationTimingEvent(operation, TRUE, call)>>
    ELSE <<ErrorEvent(operation, out.msg, call),
           OperationTimingEvent(operation, FALSE, call)>>

\* AsyncWalkingPadService._run_blocking: what it publishes once the awaited
\* worker future has produced `out'
RunBlockingEvents(operation, out, call) ==
    IF out.kind = "ok"
    THEN <<OperationTimingEvent(operation, TRUE, call)>>
    ELSE <<OperationTimingEvent(operation, FALSE, call),
           ErrorEvent(operation, out.msg, call)>>

\* faulty variant: StatusUpdated is published before the timing event
GetStatusEvents_UpdateFirst(quick, out, call) ==
    (IF out.kind = "ok" THEN <<StatusUpdatedEvent(out.val, quick, call)>> ELSE <<>>)
    \o RunBlockingEvents("get_status", out, call)

\* faulty variant: the quick flag of the request is not passed on
GetStatusEvents_QuickDropped(quick, out, call) ==
    RunBlockingEvents("get_status", out, call) \o
    (IF out.kind = "ok" THEN <<StatusUpdatedEvent(out.val, FALSE, call)>> ELSE <<>>)

\* AsyncWalkingPadService.get_status
GetStatusEvents(quick, out, call) ==
    RunBlockingEvents("get_status", out, call) \o
    (IF out.kind = "ok" THEN <<StatusUpdatedEvent(out.val, quick, call)>> ELSE <<>>)

\* faulty variant: a failed read clears the snapshot
GetStatusLatest_ClearsOnFailure(out, old) == IF out.kind = "ok" THEN out.val ELSE Unset

\* get_status: `self._latest_status = status' after _run_blocking returned
GetStatusLatest(out, old) == IF out.kind = "ok" THEN out.val ELSE old

\* faulty variant: StatusUpdated is published before the assignment
LatestAtPublish_NotYetWritten(out, old) == old

\* get_status: what _latest_status holds when StatusUpdated is published,
\* the assignment of line 31 having run
LatestAtPublish(out, old) == GetStatusLatest(out, old)

\* faulty variant: CommandExecuted is published whatever the outcome
RunCommandEvents_Always(operation, out, call) ==
    RunBlockingEvents(operation, out, call) \o <<CommandExecutedEvent(operation, call)>>

\* AsyncWalkingPadService._run_command
RunCommandEvents(operation, out, call) ==
    RunBlockingEvents(operation, out, call) \o
    (IF out.kind = "ok" THEN <<CommandExecutedEvent(out.val, call)>> ELSE <<>>)

\* events of one operation of the service
OperationEvents(req, out, call) ==
    IF req.name = "get_status" THEN GetStatusEvents(req.quick, out, call)
    ELSE RunCommandEvents(req.name, out, call)

\* _poll_loop: the body after the gate check
PollLoopEvents(out, call) ==
    GetStatusEvents(FALSE, out, call) \o
    (IF out.kind = "err" THEN <<ErrorEvent("poll", out.msg, call)>> ELSE <<>>)

\* time.perf_counter(): the values a read may return after one that
\* returned `last' (the clock is monotonic)
PerfCounter(last) == last..horizon

\* (perf_counter() - since) * 1000.0
Ms(since, t) == (t - since) * 1000

\* run_start before line 128 has run
Unbound == -1

\* _run_blocking: start, wait_ms = 0.0, run_ms = 0.0, lock_wait_start
NewTiming(t0, t1) ==
    [start |-> t0, lock_wait_start |-> t1, run_start |-> Unbound,
     wait_ms |-> 0, run_ms |-> 0, total_ms |-> 0]

\* _run_blocking: wait_ms, read once the gate is held
WaitMs(tm, t) == Ms(tm.lock_wait_start, t)

\* faulty variant: the device call is measured from the start of the call
RunMs_FromStart(tm, t) == Ms(tm.start, t)

\* _run_blocking: run_ms, read when the worker thread's result is back
RunMs(tm, t) == Ms(tm.run_start, t)

\* _run_blocking: the two statements between the admission and the dispatch
\* to the worker thread
Admitted(tm, t2, t3) ==
    [tm EXCEPT !.wait_ms = WaitMs(tm, t2), !.run_start = t3]

\* faulty variant: the handler of an exception records a run duration too
Measured_RunOnFailure(tm, out, t4, t5) ==
    [tm EXCEPT !.run_ms = Ms(tm.run_start, t5), !.total_ms = Ms(tm.start, t5)]

\* _run_blocking: the statements after the device call, on the path of a
\* result (run_ms, total_ms) and in the handler of an exception (total_ms)
Measured(tm, out, t4, t5) ==
    IF out.kind = "ok"
    THEN [tm EXCEPT !.run_ms = RunMs(tm, t4), !.total_ms = Ms(tm.start, t5)]
    ELSE [tm EXCEPT !.total_ms = Ms(tm.start, t5)]

\* the clock readings of _run_blocking after the device call of `id'
ReadClockAfterCall(id, out) ==
    \E t4 \in PerfCounter(now) : \E t5 \in PerfCounter(t4) :
        /\ out.kind = "err" => t4 = now
        /\ timing' = [timing EXCEPT ![id] = Measured(timing[id], out, t4, t5)]
        /\ now' = t5

NewCall(t, req, admitted) ==
    [task |-> t, req |-> req, st |-> IF admitted THEN "admitted" ELSE "waiting",
     admitted |-> admitted, aout |-> NoOut, ret |-> NoOut]

\* _run_blocking up to its first suspension: `async with self._io_lock' and
\* the dispatch of the callable to a worker thread
EnterRunBlocking(t, req) ==
    /\ budget > 0
    /\ budget' = budget - 1
    /\ cur' = [cur EXCEPT ![t] = Len(calls) + 1]
    /\ IF LockFastPath(io_locked, waiters, wfut)
       THEN /\ io_locked' = TRUE
            /\ fut' = [fut EXCEPT ![t] = "pending"]
            /\ pc' = [pc EXCEPT ![t] = "running"]
            /\ calls' = Append(calls, NewCall(t, req, TRUE))
            /\ UNCHANGED <<waiters, wfut>>
            /\ \E t0 \in PerfCounter(now) : \E t1 \in PerfCounter(t0) :
               \E t2 \in PerfCounter(t1) : \E t3 \in PerfCounter(t2) :
                 /\ timing' = Append(timing,
                                 Admitted(NewTiming(t0, t1), t2, t3))
                 /\ now' = t3
       ELSE /\ waiters' = Append(waiters, t)
            /\ wfut' = [wfut EXCEPT ![t] = "pending"]
            /\ pc' = [pc EXCEPT ![t] = "waiting"]
            /\ calls' = Append(calls, NewCall(t, req, FALSE))
            /\ UNCHANGED <<io_locked, fut>>
            /\ \E t0 \in PerfCounter(now) : \E t1 \in PerfCounter(t0) :
                 /\ timing' = Append(timing, NewTiming(t0, t1))
                 /\ now' = t1

\* an interactive caller invokes get_status or a command (callers are
\* interchangeable: the call is issued by the first idle one)
Call(c, req) ==
    /\ pc[c] = "idle"
    /\ c = CHOOSE x \in Callers : pc[x] = "idle"
    /\ EnterRunBlocking(c, req)
    /\ UNCHANGED <<res, orphans, latest_status, log, recv>>
    /\ UNCHANGED pollVars
    /\ UNCHANGED busVars
    /\ UNCHANGED confVars
    /\ UNCHANGED fellBack
    /\ UNCHANGED announced
    /\ UNCHANGED horizon

\* Lock.acquire resumes after its waiter future was set by release
Admit(t) ==
    /\ pc[t] = "waiting"
    /\ wfut[t] = "woken"
    /\ ~mustCancel[t]
    /\ waiters' = RemoveWaiter(waiters, t)
    /\ wfut' = [wfut EXCEPT ![t] = "none"]
    /\ io_locked' = TRUE
    /\ fut' = [fut EXCEPT ![t] = "pending"]
    /\ pc' = [pc EXCEPT ![t] = "running"]
    /\ calls' = [calls EXCEPT ![cur[t]].st = "admitted", ![cur[t]].admitted = TRUE]
    /\ \E t2 \in PerfCounter(now) : \E t3 \in PerfCounter(t2) :
         /\ timing' = [timing EXCEPT ![cur[t]] = Admitted(timing[cur[t]], t2, t3)]
         /\ now' = t3
    /\ UNCHANGED <<cur, res, orphans, latest_status, log, recv>>
    /\ UNCHANGED pollVars
    /\ UNCHANGED busVars
    /\ UNCHANGED confVars
    /\ UNCHANGED fellBack
    /\ UNCHANGED announced
    /\ UNCHANGED boundVars

\* the adapter call of task t ends on its worker thread and completes the
\* future the task awaits
WorkerReturns(t, replies, v) ==
    /\ fut[t] = "pending"
    /\ replies \in DeviceScripts(calls[cur[t]].req)
    /\ LET out == AdapterCall(calls[cur[t]].req, replies, v) IN
        /\ res' = [res EXCEPT ![t] = out]
        /\ fut' = [fut EXCEPT ![t] = "done"]
        /\ calls' = [calls EXCEPT ![cur[t]].aout = out]
    /\ UNCHANGED <<pc, cur, orphans, latest_status, log, recv>>
    /\ UNCHANGED lockVars
    /\ UNCHANGED pollVars
    /\ UNCHANGED busVars
    /\ UNCHANGED confVars
    /\ UNCHANGED clockVars
    /\ UNCHANGED boundVars
    /\ UNCHANGED announced

\* WalkingPadAdapter.status took its `except KeyError' branch
FellBack(req, replies) == req.name = "get_status" /\ replies[1] = "KeyError"

\* the worker thread finishes the adapter call of task t
ThreadFinish(t, replies, v) ==
    /\ WorkerReturns(t, replies, v)
    /\ UNCHANGED fellBack

\* the same step with the fallback of the adapter written to the history
ThreadFinishNoted(t, replies, v) ==
    /\ WorkerReturns(t, replies, v)
    /\ fellBack' = IF FellBack(calls[cur[t]].req, replies)
                   THEN fellBack \cup {cur[t]} ELSE fellBack

\* a worker thread whose awaiting task was cancelled finishes its adapter call
OrphanFinish ==
    /\ orphans > 0
    /\ orphans' = orphans - 1
    /\ UNCHANGED <<pc, cur, fut, res, latest_status, calls, log, recv>>
    /\ UNCHANGED lockVars
    /\ UNCHANGED pollVars
    /\ UNCHANGED busVars
    /\ UNCHANGED confVars
    /\ UNCHANGED fellBack
    /\ UNCHANGED announced
    /\ UNCHANGED clockVars
    /\ UNCHANGED boundVars

\* Lock.release at the exit of `async with self._io_lock'
Release ==
    /\ io_locked' = FALSE
    /\ wfut' = WakeUpFirst(waiters, wfut)
    /\ UNCHANGED waiters

EndState(out) == IF out.kind = "ok" THEN "returned" ELSE "raised"

\* an interactive operation resumes from `await asyncio.to_thread(func)' and
\* runs to its end: gate released, events published, result or failure handed
\* to the caller
Resume(c) ==
    /\ c \in Callers
    /\ pc[c] = "running"
    /\ fut[c] = "done"
    /\ LET id == cur[c]
           req == calls[id].req
           out == res[c]
       IN /\ Release
          /\ Publish(OperationEvents(req, out, id))
          /\ latest_status' = IF req.name = "get_status"
                              THEN GetStatusLatest(out, latest_status)
                              ELSE latest_status
          /\ announced' = IF req.name = "get_status" /\ out.kind = "ok"
                          THEN LatestAtPublish(out, latest_status)
                          ELSE announced
          /\ calls' = [calls EXCEPT ![id].st = EndState(out), ![id].ret = out]
          /\ ReadClockAfterCall(id, out)
    /\ pc' = [pc EXCEPT ![c] = "idle"]
    /\ cur' = [cur EXCEPT ![c] = 0]
    /\ fut' = [fut EXCEPT ![c] = "none"]
    /\ res' = [res EXCEPT ![c] = NoOut]
    /\ UNCHANGED orphans
    /\ UNCHANGED pollVars
    /\ UNCHANGED busVars
    /\ UNCHANGED confVars
    /\ UNCHANGED fellBack
    /\ UNCHANGED boundVars

(* ------------------------------ poller ---------------------------------- *)
\* a task identity no live reference points to
FreeId(p) ==
    \/ pc[p] = "free"
    \/ /\ pc[p] = "finished"
       /\ \A s \in Stoppers : stopAwait[s] # p

\* asyncio.Task.done() of the task the service references
PollingTaskDone == pc[polling_task] = "finished"

\* faulty variant: start_polling never takes the early return
StartIsNoop_Never == FALSE

\* start_polling: `if self._polling_task and not self._polling_task.done()'
StartIsNoop == polling_task # None /\ ~PollingTaskDone

\* AsyncWalkingPadService.start_polling: returns at once when a polling task
\* is running, creates the task otherwise
StartPolling ==
    /\ IF StartIsNoop
       THEN UNCHANGED <<pc, mustCancel, polling_task>>
       ELSE \E p \in Pollers :
               /\ FreeId(p)
               /\ p = CHOOSE x \in Pollers : FreeId(x)
               /\ pc' = [pc EXCEPT ![p] = "created"]
               /\ mustCancel' = [mustCancel EXCEPT ![p] = FALSE]
               /\ polling_task' = p
    /\ lastCtl' = "start"
    /\ UNCHANGED <<cur, latest_status, calls, log, recv, stopAwait, everCancelled>>
    /\ UNCHANGED lockVars
    /\ UNCHANGED threadVars
    /\ UNCHANGED busVars
    /\ UNCHANGED confVars
    /\ UNCHANGED fellBack
    /\ UNCHANGED announced
    /\ UNCHANGED clockVars
    /\ UNCHANGED boundVars

\* faulty variant: the loop takes every tick for a busy one
PollSkips_Always == TRUE

\* faulty variant: the loop never looks at the gate
PollSkips_Never == FALSE

\* _poll_loop: `if self._io_lock.locked()'
PollSkips == io_locked

\* faulty variant: an exception of the read ends the loop
PollAfterRead_EndsOnError(out) == IF out.kind = "err" THEN "finished" ELSE "sleeping"

\* _poll_loop: where the task is after get_status has returned or raised an
\* Exception: at the interval sleep that ends the loop body
PollAfterRead(out) == "sleeping"

\* _poll_loop: the interval sleep (or the task's first step) ends and the
\* loop checks the gate; a busy gate sends it back to sleep, a free one
\* starts get_status(quick=False)
PollTick(p) ==
    /\ pc[p] \in {"created", "sleeping"}
    /\ ~mustCancel[p]
    /\ IF PollSkips
       THEN /\ pc' = [pc EXCEPT ![p] = "sleeping"]
            /\ UNCHANGED <<cur, calls, fut, budget>>
            /\ UNCHANGED lockVars
            /\ UNCHANGED clockVars
       ELSE EnterRunBlocking(p, StatusReq(FALSE))
    /\ UNCHANGED <<res, orphans, latest_status, log, recv>>
    /\ UNCHANGED pollVars
    /\ UNCHANGED busVars
    /\ UNCHANGED confVars
    /\ UNCHANGED fellBack
    /\ UNCHANGED announced
    /\ UNCHANGED horizon

\* the poller's get_status resumes from the worker future and runs to the
\* interval sleep at the end of the loop body
PollResume(p) ==
    /\ p \in Pollers
    /\ pc[p] = "running"
    /\ fut[p] = "done"
    /\ ~mustCancel[p]
    /\ LET id == cur[p]
           out == res[p]
       IN /\ Release
          /\ Publish(PollLoopEvents(out, id))
          /\ latest_status' = GetStatusLatest(out, latest_status)
          /\ announced' = IF out.kind = "ok"
                          THEN LatestAtPublish(out, latest_status)
                          ELSE announced
          /\ calls' = [calls EXCEPT ![id].st = EndState(out), ![id].ret = out]
          /\ ReadClockAfterCall(id, out)
    /\ pc' = [pc EXCEPT ![p] = PollAfterRead(res[p])]
    /\ cur' = [cur EXCEPT ![p] = 0]
    /\ fut' = [fut EXCEPT ![p] = "none"]
    /\ res' = [res EXCEPT ![p] = NoOut]
    /\ UNCHANGED orphans
    /\ UNCHANGED pollVars
    /\ UNCHANGED busVars
    /\ UNCHANGED confVars
    /\ UNCHANGED fellBack
    /\ UNCHANGED boundVars

\* asyncio.Task.cancel on a polling task that is not done
CancelTask(p) ==
    /\ mustCancel' = [mustCancel EXCEPT ![p] = TRUE]
    /\ wfut' = IF pc[p] = "waiting" /\ wfut[p] = "pending"
               THEN [wfut EXCEPT ![p] = "cancelled"] ELSE wfut
    /\ everCancelled' = TRUE

\* faulty variant: the task reference survives stop_polling
StopFinally_KeepsTask == UNCHANGED polling_task

\* stop_polling: `finally: self._polling_task = None'
StopFinally == polling_task' = None

\* AsyncWalkingPadService.stop_polling up to `await self._polling_task';
\* lastCtl tells a first stop_polling from one that follows another
StopPolling(s) ==
    /\ stopAwait[s] = None
    /\ IF polling_task = None
       THEN UNCHANGED <<mustCancel, wfut, everCancelled, stopAwait, polling_task>>
       ELSE IF PollingTaskDone
       THEN /\ StopFinally
            /\ UNCHANGED <<mustCancel, wfut, everCancelled, stopAwait>>
       ELSE /\ CancelTask(polling_task)
            /\ stopAwait' = [stopAwait EXCEPT ![s] = polling_task]
            /\ UNCHANGED polling_task
    /\ lastCtl' = IF lastCtl \in {"stop", "stop2"} THEN "stop2" ELSE "stop"
    /\ UNCHANGED <<pc, cur, waiters, io_locked, latest_status, calls, log, recv>>
    /\ UNCHANGED threadVars
    /\ UNCHANGED busVars
    /\ UNCHANGED confVars
    /\ UNCHANGED fellBack
    /\ UNCHANGED announced
    /\ UNCHANGED clockVars
    /\ UNCHANGED boundVars

\* stop_polling resumes once the awaited task is done
StopPollingEnd(s) ==
    /\ stopAwait[s] # None
    /\ pc[stopAwait[s]] = "finished"
    /\ StopFinally
    /\ stopAwait' = [stopAwait EXCEPT ![s] = None]
    /\ UNCHANGED <<pc, cur, latest_status, calls, log, recv, mustCancel, everCancelled,
                   lastCtl>>
    /\ UNCHANGED lockVars
    /\ UNCHANGED threadVars
    /\ UNCHANGED busVars
    /\ UNCHANGED confVars
    /\ UNCHANGED fellBack
    /\ UNCHANGED announced
    /\ UNCHANGED clockVars
    /\ UNCHANGED boundVars

\* CancelledError is thrown into the polling task at the await it is
\* suspended on; no handler of the task catches it, so the task ends
PollerCancelled(p) ==
    /\ pc[p] \in {"created", "sleeping", "waiting", "running"}
    /\ mustCancel[p]
    /\ CASE pc[p] = "waiting" ->
              \* Lock.acquire: finally removes the waiter; if the lock is
              \* free the next waiter is woken
              LET ws == RemoveWaiter(waiters, p)
                  wf == [wfut EXCEPT ![p] = "none"]
              IN  /\ waiters' = ws
                  /\ wfut' = IF ~io_locked THEN WakeUpFirst(ws, wf) ELSE wf
                  /\ UNCHANGED <<io_locked, orphans>>
                  /\ calls' = [calls EXCEPT ![cur[p]].st = "cancelled"]
         [] pc[p] = "running" ->
              \* `async with' exits through Lock.release; the worker thread
              \* cannot be interrupted
              /\ Release
              /\ orphans' = IF fut[p] = "pending" THEN orphans + 1 ELSE orphans
              /\ calls' = [calls EXCEPT ![cur[p]].st = "cancelled"]
         [] OTHER ->
              /\ UNCHANGED lockVars
              /\ UNCHANGED <<orphans, calls>>
    /\ pc' = [pc EXCEPT ![p] = "finished"]
    /\ mustCancel' = [mustCancel EXCEPT ![p] = FALSE]
    /\ cur' = [cur EXCEPT ![p] = 0]
    /\ fut' = [fut EXCEPT ![p] = "none"]
    /\ res' = [res EXCEPT ![p] = NoOut]
    /\ UNCHANGED <<latest_status, log, recv, polling_task, stopAwait, everCancelled,
                   lastCtl>>
    /\ UNCHANGED busVars
    /\ UNCHANGED confVars
    /\ UNCHANGED fellBack
    /\ UNCHANGED announced
    /\ UNCHANGED clockVars
    /\ UNCHANGED boundVars

(* ------------------------------ consumers ------------------------------- *)
\* sub[q]: "none"     no handle yet
\*         "created"  stream() returned, the generator body has not started
\*         "waiting"  the body awaits queue.get() on an empty queue
\*         "yielded"  the body is suspended at `yield', the consumer holds
\*                    the event
\*         "closing"  the end of the stream is requested (CancelledError or
\*                    the finalizer's aclose is scheduled) and not yet run
\*         "closed"   the generator has finished

\* what leaves the bus state alone
ConsumerFrame ==
    /\ UNCHANGED <<pc, cur, latest_status, calls, log, recv>>
    /\ UNCHANGED lockVars
    /\ UNCHANGED threadVars
    /\ UNCHANGED pollVars
    /\ UNCHANGED confVars
    /\ UNCHANGED fellBack
    /\ UNCHANGED announced
    /\ UNCHANGED clockVars
    /\ UNCHANGED boundVars

\* faulty variant: the finally block leaves the queue in the set
Discard_Skipped(q) ==
    /\ UNCHANGED subscribers
    /\ leftAt' = [leftAt EXCEPT ![q] = Len(log)]

\* stream's finally block: `self._subscribers.discard(queue)'
Discard(q) ==
    /\ subscribers' = subscribers \ {q}
    /\ leftAt' = [leftAt EXCEPT ![q] = Len(log)]

\* AsyncEventBus.stream() / event_stream(): the async generator is created,
\* none of its body runs
Stream(q) ==
    /\ sub[q] = "none"
    /\ sub' = [sub EXCEPT ![q] = "created"]
    /\ UNCHANGED <<subscribers, taken, joinedAt, leftAt>>
    /\ ConsumerFrame

\* __anext__: the first one runs the body from its start, creates the queue,
\* adds it to _subscribers and suspends in queue.get(); a later one resumes
\* the loop, which yields the next queued event or suspends in queue.get()
Anext(q) ==
    /\ sub[q] \in {"created", "yielded"}
    /\ IF sub[q] = "created"
       THEN /\ subscribers' = subscribers \cup {q}
            /\ joinedAt' = [joinedAt EXCEPT ![q] = Len(log)]
            /\ sub' = [sub EXCEPT ![q] = "waiting"]
            /\ UNCHANGED taken
       ELSE /\ IF taken[q] < Len(recv[q])
               THEN /\ taken' = [taken EXCEPT ![q] = @ + 1]
                    /\ UNCHANGED sub
               ELSE /\ sub' = [sub EXCEPT ![q] = "waiting"]
                    /\ UNCHANGED taken
            /\ UNCHANGED <<subscribers, joinedAt>>
    /\ UNCHANGED leftAt
    /\ ConsumerFrame

\* queue.get() returns the event put_nowait has queued and the generator
\* yields it
Deliver(q) ==
    /\ sub[q] = "waiting"
    /\ taken[q] < Len(recv[q])
    /\ taken' = [taken EXCEPT ![q] = @ + 1]
    /\ sub' = [sub EXCEPT ![q] = "yielded"]
    /\ UNCHANGED <<subscribers, joinedAt, leftAt>>
    /\ ConsumerFrame

\* aclose() on the handle of AsyncEventBus.stream(): GeneratorExit at the
\* `yield' runs the finally block; a generator that never started or has
\* finished is closed without running anything
Aclose(q) ==
    /\ sub[q] \in {"created", "yielded", "closed"}
    /\ sub' = [sub EXCEPT ![q] = "closed"]
    /\ IF sub[q] = "yielded" THEN Discard(q) ELSE UNCHANGED <<subscribers, leftAt>>
    /\ UNCHANGED <<taken, joinedAt>>
    /\ ConsumerFrame

\* aclose() on the handle of event_stream(): the wrapping generator ends at
\* its `yield' and drops the inner generator, whose aclose the event loop's
\* finalizer hook schedules as a task of its own
AcloseEventStream(q) ==
    /\ sub[q] = "yielded"
    /\ sub' = [sub EXCEPT ![q] = "closing"]
    /\ UNCHANGED <<subscribers, taken, joinedAt, leftAt>>
    /\ ConsumerFrame

\* asyncio.Task.cancel on the task that consumes the stream, suspended in
\* queue.get()
CancelConsumer(q) ==
    /\ sub[q] = "waiting"
    /\ sub' = [sub EXCEPT ![q] = "closing"]
    /\ UNCHANGED <<subscribers, taken, joinedAt, leftAt>>
    /\ ConsumerFrame

\* the scheduled end of the stream runs: CancelledError or GeneratorExit
\* reaches the generator body and its finally block discards the queue
Teardown(q) ==
    /\ sub[q] = "closing"
    /\ sub' = [sub EXCEPT ![q] = "closed"]
    /\ Discard(q)
    /\ UNCHANGED <<taken, joinedAt>>
    /\ ConsumerFrame

(* ------------------------------ specifications -------------------------- *)
\* the service under concurrent interactive operations, polling and
\* stop_polling; nobody consumes the event stream, and the control calls
\* that return at once (they change no service state) are left to SpecPoll
Next ==
    \/ \E c \in Callers, req \in CoreRequests : Call(c, req)
    \/ \E t \in Tasks : Admit(t)
    \/ \E t \in Tasks, replies \in [1..MaxIO -> RawReplies], v \in StatusVals :
          ThreadFinish(t, replies, v)
    \/ OrphanFinish
    \/ \E c \in Callers : Resume(c)
    \/ ~StartIsNoop /\ StartPolling
    \/ \E p \in Pollers : PollTick(p)
    \/ \E p \in Pollers : PollResume(p)
    \/ \E s \in Stoppers : polling_task # None /\ StopPolling(s)
    \/ \E s \in Stoppers : StopPollingEnd(s)
    \/ \E p \in Pollers : PollerCancelled(p)

Spec == Init /\ [][Next]_vars

\* one caller issuing every operation of the service, one after the other
NextOps ==
    \/ \E req \in Requests : Call("c1", req)
    \/ \E replies \in [1..MaxIO -> RawReplies], v \in StatusVals :
          ThreadFinish("c1", replies, v)
    \/ Resume("c1")

SpecOps == Init /\ [][NextOps]_vars

\* event consumers next to one interactive caller and the poller
NextBus ==
    \/ \E req \in CoreRequests : Call("c1", req)
    \/ Admit("c1")
    \/ \E t \in {"c1", "p1"}, replies \in [1..MaxIO -> RawReplies], v \in StatusVals :
          ThreadFinish(t, replies, v)
    \/ Resume("c1")
    \/ StartPolling
    \/ PollTick("p1")
    \/ PollResume("p1")
    \/ Stream("q1")
    \/ Anext("q1")
    \/ Deliver("q1")
    \/ Aclose("q1")

SpecBus == Init /\ [][NextBus]_vars

\* start_polling and stop_polling called one after the other, each awaited
\* before the next, next to the poller and one interactive caller
NextPoll ==
    \/ \E req \in CoreRequests : Call("c1", req)
    \/ \E t \in {"c1"} \cup Pollers : Admit(t)
    \/ \E t \in {"c1"} \cup Pollers, replies \in [1..MaxIO -> RawReplies],
          v \in StatusVals : ThreadFinish(t, replies, v)
    \/ OrphanFinish
    \/ Resume("c1")
    \/ (\A s \in Stoppers : stopAwait[s] = None) /\ StartPolling
    \/ \E p \in Pollers : PollTick(p)
    \/ \E p \in Pollers : PollResume(p)
    \/ \E s \in Stoppers : StopPolling(s)
    \/ \E s \in Stoppers : StopPollingEnd(s)
    \/ \E p \in Pollers : PollerCancelled(p)

SpecPoll == Init /\ [][NextPoll]_vars

\* the poller next to interactive commands (no interactive get_status) on a
\* device whose status call succeeds; the commands leave one of the MaxOps
\* calls to the poller until it has issued a read
PollReadSucceeds(replies, v) ==
    /\ ThreadFinish("p1", replies, v)
    /\ AdapterCall(StatusReq(FALSE), replies, v).kind = "ok"

LiveCommand ==
    /\ \/ Len(calls) + 1 < MaxOps
       \/ \E id \in 1..Len(calls) : calls[id].task \in Pollers
    /\ \E req \in Requests : req.name # "get_status" /\ Call("c1", req)

LiveAdmit == \E t \in {"c1", "p1"} : Admit(t)

LiveCommandFinish ==
    \E replies \in [1..MaxIO -> RawReplies], v \in StatusVals :
        ThreadFinish("c1", replies, v)

LivePollFinish ==
    \E replies \in [1..MaxIO -> RawReplies], v \in StatusVals :
        PollReadSucceeds(replies, v)

NextLive ==
    \/ LiveCommand
    \/ LiveAdmit
    \/ LiveCommandFinish
    \/ LivePollFinish
    \/ Resume("c1")
    \/ StartPolling
    \/ PollTick("p1")
    \/ PollResume("p1")

\* the event loop runs every task that is ready, timers expire, and every
\* device call terminates
SpecLive ==
    /\ Init
    /\ [][NextLive]_vars
    /\ WF_vars(LiveAdmit)
    /\ WF_vars(LiveCommandFinish)
    /\ WF_vars(LivePollFinish)
    /\ WF_vars(Resume("c1"))
    /\ WF_vars(PollTick("p1"))
    /\ WF_vars(PollResume("p1"))

\* load_config is called once on the process environment
LoadConfig ==
    /\ config = NotLoaded
    /\ config' = load_config(env)
    /\ UNCHANGED <<pc, cur, latest_status, calls, log, recv, env>>
    /\ UNCHANGED lockVars
    /\ UNCHANGED threadVars
    /\ UNCHANGED pollVars
    /\ UNCHANGED busVars
    /\ UNCHANGED clockVars
    /\ UNCHANGED boundVars
    /\ UNCHANGED fellBack
    /\ UNCHANGED announced

InitConfig ==
    /\ InitService
    /\ env \in Envs
    /\ config = NotLoaded
    /\ budget = MaxOps
    /\ horizon = 0

NextConfig == LoadConfig

SpecConfig == InitConfig /\ [][NextConfig]_vars

\* two interactive callers contending for the gate while the poller runs:
\* one call more than MaxOps, so that a poll can meet a held gate with a
\* caller already waiting behind it
InitRace ==
    /\ InitService
    /\ env = ServiceEnv
    /\ config = NotLoaded
    /\ budget = MaxOps + 1
    /\ horizon = 0

NextRace ==
    \/ \E c \in Callers : \E req \in HubRequests : Call(c, req)
    \/ \E t \in Tasks : Admit(t)
    \/ \E t \in Tasks : \E replies \in [1..MaxIO -> {"ok"}] : \E v \in {"st1"} :
          ThreadFinish(t, replies, v)
    \/ \E c \in Callers : Resume(c)
    \/ ~StartIsNoop /\ StartPolling
    \/ PollTick("p1")
    \/ PollResume("p1")

SpecRace == InitRace /\ [][NextRace]_vars

\* the worker thread of task t returns: the device call terminates, with a
\* result or with an exception
DeviceCallEnds(t) ==
    \E replies \in [1..MaxIO -> RawReplies] : \E v \in {"st1"} :
        ThreadFinish(t, replies, v)

\* the gate under contention: two interactive callers and the poller, on a
\* device whose calls succeed or raise
NextGate ==
    \/ \E c \in Callers : \E req \in HubRequests : Call(c, req)
    \/ \E t \in Tasks : Admit(t)
    \/ \E t \in Tasks : DeviceCallEnds(t)
    \/ \E c \in Callers : Resume(c)
    \/ ~StartIsNoop /\ StartPolling
    \/ PollTick("p1")
    \/ PollResume("p1")

\* the event loop runs every task that is ready (a woken waiter, a task
\* whose worker future is done) and every device call terminates
SpecGate ==
    /\ InitRace
    /\ [][NextGate]_vars
    /\ \A t \in Tasks : WF_vars(Admit(t))
    /\ \A t \in Tasks : WF_vars(DeviceCallEnds(t))
    /\ \A c \in Callers : WF_vars(Resume(c))
    /\ WF_vars(PollResume("p1"))

\* the histories restart while no gate-mediated call is in progress, so that
\* a client can go on issuing operations for ever within the bound on calls
ForgetHistory ==
    /\ calls # <<>>
    /\ \A t \in Tasks : cur[t] = 0
    /\ calls' = <<>>
    /\ log' = <<>>
    /\ timing' = <<>>
    /\ budget' = budget + Len(calls)
    /\ fellBack' = {}
    /\ UNCHANGED <<pc, cur, latest_status, recv, now, horizon>>
    /\ UNCHANGED lockVars
    /\ UNCHANGED threadVars
    /\ UNCHANGED pollVars
    /\ UNCHANGED busVars
    /\ UNCHANGED confVars
    /\ UNCHANGED announced

\* the client leaves one call of the bound to the poller until the poller
\* has issued a read
ClientMayCall ==
    \/ budget > 1
    \/ \E id \in 1..Len(calls) : calls[id].task \in Pollers

\* one interactive client issuing operations one after the other, as long as
\* it likes, next to the poller
NextForever ==
    \/ \E req \in CoreRequests : ClientMayCall /\ Call("c1", req)
    \/ \E t \in {"c1", "p1"} : Admit(t)
    \/ \E t \in {"c1", "p1"} : DeviceCallEnds(t)
    \/ Resume("c1")
    \/ ~StartIsNoop /\ StartPolling
    \/ PollTick("p1")
    \/ PollResume("p1")
    \/ ForgetHistory

\* the event loop runs every task that is ready, the poller's sleep expires
\* and every device call terminates; the client is free to issue or not
SpecForever ==
    /\ Init
    /\ [][NextForever]_vars
    /\ \A t \in {"c1", "p1"} : WF_vars(Admit(t))
    /\ \A t \in {"c1", "p1"} : WF_vars(DeviceCallEnds(t))
    /\ WF_vars(Resume("c1"))
    /\ WF_vars(PollTick("p1"))
    /\ WF_vars(PollResume("p1"))

\* two interactive callers under a clock that advances: a reading of
\* perf_counter returns the previous reading or a later one
InitClock ==
    /\ InitService
    /\ env = ServiceEnv
    /\ config = NotLoaded
    /\ budget = MaxOps
    /\ horizon = MaxClock

NextClock ==
    \/ \E c \in Callers : \E req \in HubRequests : Call(c, req)
    \/ \E c \in Callers : Admit(c)
    \/ \E c \in Callers : DeviceCallEnds(c)
    \/ \E c \in Callers : Resume(c)

SpecClock == InitClock /\ [][NextClock]_vars

\* one caller going through every request, with the adapter's fallback
\* written to the history
NextFallback ==
    \/ \E req \in Requests : Call("c1", req)
    \/ \E replies \in [1..MaxIO -> RawReplies], v \in StatusVals :
          ThreadFinishNoted("c1", replies, v)
    \/ Resume("c1")

SpecFallback == Init /\ [][NextFallback]_vars

\* two subscribers, joining when they like, while an interactive caller and
\* the poller publish
NextOrder ==
    \/ \E req \in HubRequests : Call("c1", req)
    \/ \E t \in {"c1", "p1"} : Admit(t)
    \/ \E t \in {"c1", "p1"} : DeviceCallEnds(t)
    \/ Resume("c1")
    \/ ~StartIsNoop /\ StartPolling
    \/ PollTick("p1")
    \/ PollResume("p1")
    \/ Stream("q1")
    \/ sub["q1"] # "none" /\ Stream("q2")
    \/ \E q \in Subs : Anext(q)
    \/ \E q \in Subs : Deliver(q)

SpecOrder == Init /\ [][NextOrder]_vars


\* the hub with two consumers of either kind of handle and one interactive
\* caller as the publisher; handles are obtained in a fixed order
NextHub ==
    \/ \E req \in HubRequests : Call("c1", req)
    \/ \E replies \in [1..MaxIO -> RawReplies], v \in StatusVals :
          ThreadFinish("c1", replies, v)
    \/ Resume("c1")
    \/ Stream("q1")
    \/ sub["q1"] # "none" /\ Stream("q2")
    \/ \E q \in Subs : Anext(q)
    \/ \E q \in Subs : Deliver(q)
    \/ \E q \in Subs : Aclose(q)
    \/ \E q \in Subs : AcloseEventStream(q)
    \/ \E q \in Subs : CancelConsumer(q)
    \/ \E q \in Subs : Teardown(q)

SpecHub == Init /\ [][NextHub]_vars

(* ------------------------------ properties ------------------------------ *)
CallIds == 1..Len(calls)

\* the call has left _run_blocking
Ended(id) == calls[id].st \in {"returned", "raised", "cancelled"}

IsCommand(id) == calls[id].req.name \in CommandNames
IsStatusRead(id) == calls[id].req.name = "get_status"

\* events a call has published, in publish order
EventsOf(id) == SelectSeq(log, LAMBDA e : e.call = id)
EventsOfType(id, type) == SelectSeq(log, LAMBDA e : e.call = id /\ e.type = type)
\* the same without the poller's own Error(operation="poll")
ServiceEventsOf(id) ==
    SelectSeq(log, LAMBDA e : e.call = id /\ ~(e.type = "Error" /\ e.operation = "poll"))

\* adapter calls executing on worker threads right now
Depth == Cardinality({t \in Tasks : fut[t] = "pending"}) + orphans

\* C1: as long as no task has been cancelled, at most one adapter call is
\* executing at any instant and it executes only while the gate is held by
\* its caller, for concurrent callers together with a running poller.
C1_MutualExclusion ==
    ~everCancelled =>
        /\ Depth <= 1
        /\ \A t \in Tasks : fut[t] = "pending" => io_locked /\ pc[t] = "running"

\* an adapter call is executing while another caller waits for the gate and
\* a poller is alive
C1_Witness ==
    /\ ~everCancelled
    /\ Depth = 1
    /\ waiters # <<>>
    /\ polling_task # None

\* C2: stop_polling never releases the gate under a device call: a device
\* call abandoned by the cancelled poller keeps the gate held until it has
\* finished, so device calls never overlap, also across stop_polling.
C2_GateHeldAcrossCancel ==
    /\ orphans > 0 => io_locked
    /\ Depth <= 1

\* C3: every call that has left _run_blocking, whatever its outcome, has
\* published exactly one OperationTiming event, and a call still inside has
\* published none.
C3_OneTimingPerCall ==
    \A id \in CallIds :
        Len(EventsOfType(id, "OperationTiming")) = IF Ended(id) THEN 1 ELSE 0

\* C4: when the adapter call of an operation has raised and the operation
\* has ended, the service has published OperationTiming(success=false) and
\* then Error with the same operation name, once each, and the caller got
\* the adapter's failure.
C4_FailurePublishedAndRaised ==
    \A id \in CallIds :
        (calls[id].aout.kind = "err" /\ Ended(id)) =>
            /\ ServiceEventsOf(id) =
                  <<OperationTimingEvent(calls[id].req.name, FALSE, id),
                    ErrorEvent(calls[id].req.name, calls[id].aout.msg, id)>>
            /\ calls[id].st = "raised"
            /\ calls[id].ret = calls[id].aout

\* the device call behind the event failed
DeviceCallFailed(e) == calls[e.call].aout.kind = "err"

PrecededByFailedTiming(i) ==
    /\ i > 1
    /\ log[i-1] = OperationTimingEvent(log[i].operation, FALSE, log[i].call)

PrevIs(q, i, e) == i > 1 /\ recv[q][i-1] = e
NextIsOneOf(q, i, es) == i < Len(recv[q]) /\ recv[q][i+1] \in es

\* C6: in every subscriber's queue the outcome event of an operation comes
\* right after that operation's timing event: StatusUpdated after
\* OperationTiming(get_status, success=true), CommandExecuted after the
\* command's OperationTiming(success=true), Error after
\* OperationTiming(success=false); a timing event is followed by the outcome
\* event that matches its success flag, and a failed operation delivers no
\* StatusUpdated and no CommandExecuted.
C6_PerOperationOrder ==
    \A q \in Subs : \A i \in 1..Len(recv[q]) :
        LET e == recv[q][i]
            name == calls[e.call].req.name
        IN  /\ e.type = "StatusUpdated" =>
                PrevIs(q, i, OperationTimingEvent("get_status", TRUE, e.call))
            /\ e.type = "CommandExecuted" =>
                name \in CommandNames /\ PrevIs(q, i, OperationTimingEvent(name, TRUE, e.call))
            /\ (e.type = "Error" /\ e.operation # "poll") =>
                PrevIs(q, i, OperationTimingEvent(e.operation, FALSE, e.call))
            /\ (e.type = "OperationTiming" /\ e.success) =>
                NextIsOneOf(q, i,
                    IF name = "get_status"
                    THEN {StatusUpdatedEvent(v, b, e.call) : v \in StatusVals, b \in BOOLEAN}
                    ELSE {CommandExecutedEvent(name, e.call)})
            /\ (e.type = "OperationTiming" /\ ~e.success) =>
                /\ NextIsOneOf(q, i, {ErrorEvent(e.operation, calls[e.call].aout.msg, e.call)})
                /\ \A j \in 1..Len(recv[q]) :
                      recv[q][j].call = e.call =>
                          recv[q][j].type \notin {"StatusUpdated", "CommandExecuted"}

\* a subscriber has received the events of a failed operation and of a
\* successful one, one of them a command
C6_Witness ==
    \E q \in Subs :
        /\ \E i \in 1..Len(recv[q]) : recv[q][i].type = "Error"
        /\ \E i \in 1..Len(recv[q]) : recv[q][i].type \in {"StatusUpdated", "CommandExecuted"}
        /\ \E i \in 1..Len(recv[q]) :
              recv[q][i].type = "OperationTiming" /\ recv[q][i].operation = "stop"

OutOfRangeSpeed(id) ==
    /\ calls[id].req.name \in {"set_speed", "set_start_speed"}
    /\ ~SpeedInRange(calls[id].req.speed)

\* C7: set_speed / set_start_speed with a speed outside [0, 6] never
\* acquires the gate and publishes no event; it fails with
\* CommandValidationError.
C7_ValidationBeforeAdmission ==
    \A id \in CallIds :
        OutOfRangeSpeed(id) =>
            /\ ~calls[id].admitted
            /\ EventsOf(id) = <<>>
            /\ Ended(id) => calls[id].ret.exc = "CommandValidationError"

\* a status read completes successfully in this step
StatusReadReturns(id) ==
    /\ IsStatusRead(id)
    /\ calls[id].st = "admitted"
    /\ calls'[id].st = "returned"

C8_Step ==
    /\ latest_status # Unset => latest_status' # Unset
    /\ \A id \in CallIds : StatusReadReturns(id) => latest_status' = calls'[id].ret.val
    /\ latest_status' # latest_status => \E id \in CallIds : StatusReadReturns(id)

\* C8: latest_status starts unset; a step changes it only if a status read
\* (quick or full) completes successfully in that step, and then it holds the
\* value read; every other step (commands, failed reads, skipped ticks,
\* start_polling, stop_polling, cancellation) leaves it unchanged, and once
\* set it is never unset again.
C8_LatestStatusSingleWriter ==
    /\ latest_status = Unset
    /\ [][C8_Step]_vars

\* two successful reads with different values were published and
\* latest_status holds the later one
C8_Witness ==
    /\ Len(log) >= 4
    /\ log[Len(log)].type = "StatusUpdated"
    /\ latest_status = log[Len(log)].status
    /\ \E i \in 1..Len(log) :
          log[i].type = "StatusUpdated" /\ log[i].status # latest_status

C9_Returned ==
    \A id \in CallIds :
        (IsStatusRead(id) /\ calls[id].st = "returned") =>
            /\ calls[id].aout.kind = "ok"
            /\ calls[id].ret = calls[id].aout
            /\ EventsOf(id) =
                  <<OperationTimingEvent("get_status", TRUE, id),
                    StatusUpdatedEvent(calls[id].ret.val, calls[id].req.quick, id)>>

C9_Step ==
    \A id \in CallIds : StatusReadReturns(id) => latest_status' = calls'[id].ret.val

\* C9: a get_status(quick=q) that returned has returned the status the
\* adapter produced and has published, besides its timing event, exactly one
\* StatusUpdated carrying that status and quick = q and no CommandExecuted;
\* in the state it returns in, latest_status is the returned value.
C9_SuccessfulGetStatus ==
    /\ []C9_Returned
    /\ [][C9_Step]_vars

\* a quick read and a full read have both returned
C9_Witness ==
    /\ \E id \in CallIds :
          IsStatusRead(id) /\ calls[id].st = "returned" /\ calls[id].req.quick
    /\ \E id \in CallIds :
          IsStatusRead(id) /\ calls[id].st = "returned" /\ ~calls[id].req.quick

\* C10: a command that has ended has published CommandExecuted exactly once,
\* carrying the adapter's CommandResult, if the adapter call returned, and
\* never if it raised, in which case the caller got the adapter's failure; a
\* command still in progress has published none.
C10_CommandExecutedIffReturned ==
    \A id \in CallIds :
        IsCommand(id) =>
            LET done == EventsOfType(id, "CommandExecuted") IN
            CASE ~Ended(id) -> done = <<>>
              [] calls[id].aout.kind = "ok" ->
                    /\ done = <<CommandExecutedEvent(calls[id].aout.val, id)>>
                    /\ calls[id].st = "returned"
                    /\ calls[id].ret = calls[id].aout
              [] OTHER ->
                    /\ done = <<>>
                    /\ calls[id].st = "raised"
                    /\ calls[id].ret = calls[id].aout

\* one command has returned its CommandResult and another one has raised
C10_Witness ==
    /\ \E id \in CallIds : IsCommand(id) /\ calls[id].st = "returned"
    /\ \E id \in CallIds : IsCommand(id) /\ calls[id].st = "raised"

(* ------------------------------ event hub ------------------------------ *)
\* the events published while the queue of handle q was in _subscribers
Heard(q) ==
    IF q \in subscribers THEN SubSeq(log, joinedAt[q] + 1, Len(log))
    ELSE SubSeq(log, joinedAt[q] + 1, leftAt[q])

\* C11: whatever the publishes and the subscribers, the queue of every
\* subscriber holds exactly the events published while it was registered,
\* each once and in publish order, and nothing published before it was
\* registered.
C11_HubFanOut ==
    \A q \in Subs : recv[q] = Heard(q)

\* two subscribers are registered, the second one since after a publish; the
\* first has been handed events of two operations, the second of one
C11_Witness ==
    /\ subscribers = {"q1", "q2"}
    /\ joinedAt["q1"] < joinedAt["q2"]
    /\ Len(recv["q1"]) > Len(recv["q2"])
    /\ Len(recv["q2"]) >= 2
    /\ \E i, j \in 1..Len(recv["q1"]) : recv["q1"][i].call # recv["q1"][j].call

\* the events one step publishes
Published == SubSeq(log', Len(log) + 1, Len(log'))

\* a handle has been obtained from stream() / event_stream() and the end of
\* its stream has not been asked for
HandleHeld(q) == sub[q] \in {"created", "waiting", "yielded"}

\* C12: every event published once a consumer holds its handle is put into
\* that consumer's queue, also when the consumer has not requested its first
\* event yet.
C12_DeliveredFromHandle ==
    [][\A q \in Subs : HandleHeld(q) => recv'[q] = recv[q] \o Published]_vars

\* events put into the queue of q that its consumer has not taken
Backlog(q) == Len(recv[q]) - taken[q]

\* C13: a publish completes in the step that starts it, whatever the
\* consumers have left in their queues, and appends its events to the queue
\* of every registered subscriber; no event is dropped for a consumer that is
\* behind, and such a consumer holds back no other queue.
C13_PublishNeverBlocksNorDrops ==
    [][log' # log =>
          /\ \A q \in subscribers : recv'[q] = recv[q] \o Published
          /\ \E id \in CallIds :
                /\ ~Ended(id)
                /\ calls'[id].st \in {"returned", "raised"}]_vars

\* a registered consumer has taken nothing of four queued events while the
\* other consumer has been handed the same four and has taken some
C13_Witness ==
    /\ subscribers = {"q1", "q2"}
    /\ taken["q1"] = 0 /\ Backlog("q1") >= 4
    /\ Len(recv["q2"]) >= 4 /\ taken["q2"] >= 2

\* the generator of handle q has added its queue and has not finished
StreamActive(q) == sub[q] \in {"waiting", "yielded", "closing"}

\* the subscriber set holds exactly the queues of the active streams
C14_ExactlyActive == subscribers = {q \in Subs : StreamActive(q)}

\* a finished stream stays finished and its queue gets nothing any more;
\* closing a stream that never started touches neither the set nor a queue,
\* and closing a finished one changes nothing at all
C14_Step ==
    \A q \in Subs :
        /\ sub[q] = "closed" => sub'[q] = "closed" /\ recv'[q] = recv[q]
        /\ sub[q] = "created" /\ sub'[q] = "closed" =>
              UNCHANGED <<subscribers, recv, log, taken, joinedAt, leftAt>>
        /\ sub[q] # "closed" /\ sub'[q] = "closed" => q \notin subscribers'

\* C14: when a stream ends, by aclose or by cancellation of its consumer,
\* its queue leaves the subscriber set and receives nothing of any later
\* publish; closing twice or closing a stream never iterated is a no-op; the
\* subscriber set is always exactly the set of queues of the active streams.
C14_SubscriberTeardown == []C14_ExactlyActive /\ [][C14_Step]_vars

\* one stream ended by cancellation before it yielded anything, the other
\* after its consumer had taken events, and events were published after
\* each of them had ended
C14_Witness ==
    /\ sub["q1"] = "closed" /\ taken["q1"] = 0 /\ recv["q1"] # <<>>
    /\ sub["q2"] = "closed" /\ taken["q2"] >= 1
    /\ \A q \in Subs : leftAt[q] < Len(log)
    /\ subscribers = {}

(* ------------------------------ poller ---------------------------------- *)
\* the polling tasks that exist and have not finished
AlivePollers == {p \in Pollers : pc[p] \notin {"free", "finished"}}

\* polling task p leaves its sleep (or takes its first step) in this step and
\* is not cancelled
Ticks(p) ==
    /\ pc[p] \in {"created", "sleeping"}
    /\ pc'[p] \notin {pc[p], "finished"}

\* a tick with the gate held only puts the task to sleep; a tick with the gate
\* free starts get_status(quick=False) and publishes nothing by itself
C15_Step ==
    \A p \in Pollers :
        Ticks(p) =>
            IF io_locked
            THEN /\ pc'[p] = "sleeping"
                 /\ UNCHANGED <<cur, calls, log, recv, latest_status, orphans>>
                 /\ UNCHANGED <<fut, res, wfut, waiters, io_locked>>
            ELSE /\ pc'[p] \in {"running", "waiting"}
                 /\ Len(calls') = Len(calls) + 1
                 /\ calls'[Len(calls')].task = p
                 /\ calls'[Len(calls')].req = StatusReq(FALSE)
                 /\ cur'[p] = Len(calls')
                 /\ UNCHANGED <<log, recv, latest_status>>

\* C15: a poll tick that finds the gate held makes no device call, publishes
\* no event and sends the poller to sleep for an interval; a tick that finds
\* the gate free starts a full (quick=false) status read.
C15_SkipOnBusy == [][C15_Step]_vars

\* a polling task sleeps after a tick that found the gate held: it has issued
\* no call and the gate is still held by an interactive operation
C15_Witness ==
    \E p \in Pollers :
        /\ pc[p] = "sleeping"
        /\ io_locked
        /\ \A id \in CallIds : calls[id].task # p
        /\ \E id \in CallIds : calls[id].task \in Callers /\ calls[id].st = "admitted"

\* the read of polling task p raises in this step
PollReadRaises(p) ==
    /\ cur[p] # 0
    /\ calls[cur[p]].st # "raised"
    /\ calls'[cur[p]].st = "raised"

\* a read that raises publishes Error(operation="poll") with the exception's
\* message last and leaves the task at its interval sleep, still referenced
\* by the service; a polling task finishes by cancellation only
C16_Step ==
    \A p \in Pollers :
        /\ PollReadRaises(p) =>
              /\ Len(log') = Len(log) + 3
              /\ log'[Len(log')] =
                    ErrorEvent("poll", calls'[cur[p]].aout.msg, cur[p])
              /\ pc'[p] = "sleeping"
              /\ UNCHANGED <<polling_task, mustCancel, latest_status>>
        /\ p \in AlivePollers /\ pc'[p] = "finished" => mustCancel[p]

\* C16: when the poller's status read raises, the loop catches the
\* exception, publishes an Error event with operation "poll" and goes on to
\* its interval sleep and next tick; the polling task ends only when it is
\* cancelled by stop_polling.
C16_FailedPollKeepsLoop == [][C16_Step]_vars

\* a polling task whose first read raised has run its next tick and issued a
\* second read
C16_Witness ==
    \E p \in Pollers : \E i, j \in CallIds :
        /\ i < j
        /\ calls[i].task = p /\ calls[i].st = "raised"
        /\ calls[j].task = p /\ cur[p] = j
        /\ polling_task = p
        /\ ~everCancelled

\* no stop_polling call is suspended at `await self._polling_task'
NoStopInProgress == \A s \in Stoppers : stopAwait[s] = None

\* start_polling creates a task only when no polling task is alive
C17_Step ==
    \A p \in Pollers :
        pc[p] \in {"free", "finished"} /\ pc'[p] = "created" => AlivePollers = {}

\* at most one polling task is alive, it is the one the service references,
\* and between calls one is alive exactly if the last call was start_polling
C17_OnePoller ==
    /\ Cardinality(AlivePollers) <= 1
    /\ AlivePollers \subseteq {polling_task}
    /\ NoStopInProgress => (AlivePollers # {} <=> lastCtl = "start")

\* C17: start_polling while the poller runs creates no second task; after
\* any sequence of start_polling and stop_polling calls at most one polling
\* task is alive, and the poller runs exactly after a start_polling that no
\* stop_polling has followed.
C17_StartIdempotent == []C17_OnePoller /\ [][C17_Step]_vars

\* the poller has been stopped and started again: the new task is alive and
\* has issued a read, the cancelled one has finished its call
C17_Witness ==
    /\ lastCtl = "start"
    /\ everCancelled
    /\ NoStopInProgress
    /\ \E p \in AlivePollers : cur[p] # 0
    /\ \E id \in CallIds : calls[id].st = "cancelled"

\* a stop_polling call starts in this step
StopCalled == lastCtl' \in {"stop", "stop2"} /\ lastCtl' # lastCtl

\* a stop_polling call that finds no polling task returns in the same step
\* and changes nothing of the service
C18_Step ==
    StopCalled /\ polling_task = None =>
        /\ UNCHANGED <<pc, cur, latest_status, calls, log, recv, polling_task>>
        /\ UNCHANGED <<mustCancel, stopAwait, everCancelled>>
        /\ UNCHANGED lockVars
        /\ UNCHANGED threadVars
        /\ UNCHANGED busVars

\* once a stop_polling call has returned the service references no task, so
\* the next stop_polling call finds none
C18_Stopped ==
    lastCtl \in {"stop", "stop2"} /\ NoStopInProgress => polling_task = None

\* C18: stop_polling called when the poller was never started, or again right
\* after a stop_polling, returns at once, publishes nothing and leaves the
\* poller stopped and the gate and latest_status as they were.
C18_StopIdempotent == []C18_Stopped /\ [][C18_Step]_vars

\* stop_polling has been called right after a stop_polling that cancelled a
\* running poller which had stored a status
C18_Witness ==
    /\ lastCtl = "stop2"
    /\ everCancelled
    /\ NoStopInProgress
    /\ latest_status # Unset

\* C19: when stop_polling has returned, no polling task is alive, no device
\* call started by the poller is still executing, and none of the poller's
\* reads is in flight.
C19_StoppedCompletely ==
    lastCtl \in {"stop", "stop2"} /\ NoStopInProgress =>
        /\ AlivePollers = {}
        /\ orphans = 0
        /\ \A id \in CallIds : calls[id].task \in Pollers => Ended(id)

\* a read issued by the poller has returned and its status is stored
PollReadDone ==
    /\ latest_status # Unset
    /\ \E id \in CallIds : calls[id].task \in Pollers /\ calls[id].st = "returned"

\* the first step of a polling task that finds the gate free starts the read
C20_FirstAttempt ==
    \A p \in Pollers :
        pc[p] = "created" /\ ~io_locked /\ Ticks(p) =>
            pc'[p] \in {"running", "waiting"} /\ cur'[p] # 0

\* C20: once start_polling has created the polling task on a device whose
\* status call succeeds and terminates, a read of the poller eventually
\* returns and latest_status is set, no interactive get_status being issued;
\* the task's first attempt comes before any interval sleep.
C20_PollingProgress ==
    /\ (polling_task # None) ~> PollReadDone
    /\ [][C20_FirstAttempt]_vars

\* the poller's read has set latest_status while the only interactive
\* operation issued was a command
C20_Witness ==
    /\ PollReadDone
    /\ \A id \in CallIds : calls[id].task \in Callers => IsCommand(id)
    /\ \E id \in CallIds : calls[id].task \in Callers

(* ------------------------------ configuration -------------------------- *)
\* a variable that is not set or holds only blanks
BlankText(text) == text = EnvUnset \/ Strip(text) = ""

\* the text of an optional number that must be refused: not a number, or a
\* number <= 0
RefusedNumber(text) ==
    /\ ~BlankText(text)
    /\ \/ ParseFloat(Strip(text)) = ValueError
       \/ FloatLeqZero(ParseFloat(Strip(text)))

\* C21: load_config raises ConfigurationError, naming every missing variable,
\* when WALKINGPAD_IP or WALKINGPAD_TOKEN is missing or blank, and when a
\* polling interval or request timeout is given that is not a number or is
\* <= 0; otherwise the configuration returned has a non-empty ip and token,
\* a polling interval > 0 and a request timeout > 0, the defaults 1.0 and 5.0
\* standing in for the optional variables that are not set.
C21_ConfigValid ==
    config # NotLoaded =>
        LET noIp == BlankText(env.WALKINGPAD_IP)
            noToken == BlankText(env.WALKINGPAD_TOKEN)
        IN  IF noIp \/ noToken
            THEN /\ config.kind = "err"
                 /\ noIp => \E i \in DOMAIN config.msg : config.msg[i] = "WALKINGPAD_IP"
                 /\ noToken => \E i \in DOMAIN config.msg : config.msg[i] = "WALKINGPAD_TOKEN"
            ELSE IF \/ RefusedNumber(env.WALKINGPAD_POLLING_INTERVAL)
                    \/ RefusedNumber(env.WALKINGPAD_REQUEST_TIMEOUT)
            THEN config.kind = "err"
            ELSE /\ config.kind = "ok"
                 /\ config.ip # "" /\ config.token # ""
                 /\ FloatGtZero(config.polling)
                 /\ FloatGtZero(config.timeout)
                 /\ BlankText(env.WALKINGPAD_POLLING_INTERVAL) =>
                        config.polling = Float("num", 10)
                 /\ BlankText(env.WALKINGPAD_REQUEST_TIMEOUT) =>
                        config.timeout = Float("num", 50)

(* ------------------------------ C22 ------------------------------------- *)
\* the tasks suspended in Lock.acquire of the gate
GateWaiters == {t \in Tasks : pc[t] = "waiting"}

\* C22: the poller never queues behind an interactive operation: no polling
\* task is ever among the callers waiting for the gate
C22_PollerNeverQueues ==
    GateWaiters \cap Pollers = {}

(* ------------------------------ C23 ------------------------------------- *)
\* the tasks inside `async with self._io_lock'
GateHolders == {t \in Tasks : pc[t] = "running"}

\* the gate is held only by a call that is still inside _run_blocking, and
\* a free gate with callers queued has woken the first of them
C23_NoStaleHold ==
    /\ io_locked => Cardinality(GateHolders) = 1
    /\ ~io_locked /\ waiters # <<>> => wfut[Head(waiters)] = "woken"

\* a task waiting for the gate is admitted
C23_WaiterAdmitted ==
    \A t \in Tasks : (pc[t] = "waiting") ~> (pc[t] = "running")

\* C23: the gate is released on every exit path of a gate-mediated call
\* (result or exception of the device call), so it is never left held by a
\* finished operation, and every caller waiting for the gate is eventually
\* admitted when every device call terminates
C23_GateReleasedAndFair == []C23_NoStaleHold /\ C23_WaiterAdmitted

\* a device call has raised and its exit from the gate has woken the caller
\* that was waiting behind it
C23_Witness ==
    \E id \in CallIds :
        /\ calls[id].st = "raised"
        /\ ~io_locked
        /\ waiters # <<>>
        /\ wfut[Head(waiters)] = "woken"
        /\ calls[cur[Head(waiters)]].st = "waiting"

(* ------------------------------ C24 ------------------------------------- *)
\* every interactive operation that was issued completes
C24_CommandsComplete ==
    \A c \in Callers : (pc[c] # "idle") ~> (pc[c] = "idle")

\* a polling loop that was started gets to perform a status read
C24_PollerReads ==
    (\E p \in Pollers : pc[p] \in {"created", "sleeping"})
        ~> (\E p \in Pollers : pc[p] = "running")

\* C24: neither the poller nor interactive commands starve the other: while
\* the poller runs and interactive operations keep being issued, every
\* interactive operation completes and the poller performs a status read
C24_NoStarvation == C24_CommandsComplete /\ C24_PollerReads

(* ------------------------------ C25 ------------------------------------- *)
\* the device call of `id' begins in this step: the call is admitted to the
\* gate and dispatched to a worker thread
BeginsDeviceCall(id) ==
    /\ id \in 1..Len(calls')
    /\ calls'[id].admitted
    /\ id \in CallIds => ~calls[id].admitted

\* the events a finished call publishes: those of _run_blocking and of its
\* caller (get_status, _run_command, _poll_loop); none when it was cancelled
EventsDue(id) ==
    IF calls[id].st = "cancelled" THEN <<>>
    ELSE IF calls[id].task \in Pollers THEN PollLoopEvents(calls[id].ret, id)
    ELSE OperationEvents(calls[id].req, calls[id].ret, id)

\* when a device call begins, every call admitted before it has left the
\* gate and all its events are in the log; a call publishes only in the
\* step in which it returns or raises
C25_Step ==
    /\ \A id2 \in 1..Len(calls') :
          BeginsDeviceCall(id2) =>
             \A id \in CallIds \ {id2} :
                calls[id].admitted => Ended(id) /\ EventsOf(id) = EventsDue(id)
    /\ \A i \in (Len(log) + 1)..Len(log') :
          /\ ~Ended(log'[i].call)
          /\ calls'[log'[i].call].st \in {"returned", "raised"}

\* C25: for two operations serialized by the gate, all events of the one
\* admitted first are published before the device call of the one admitted
\* next begins
C25_CrossOperationOrder == [][C25_Step]_vars

\* two calls were admitted one after the other: the first has published its
\* OperationTiming and its outcome event, the device call of the second is
\* running and the second has published nothing yet
C25_Witness ==
    \E id \in CallIds : \E id2 \in CallIds :
        /\ id # id2
        /\ calls[id].st \in {"returned", "raised"}
        /\ Len(EventsOf(id)) >= 2
        /\ calls[id2].st = "admitted"
        /\ fut[calls[id2].task] = "pending"
        /\ EventsOf(id2) = <<>>

(* ------------------------------ C26 ------------------------------------- *)
\* the OperationTiming(success=true) events of a call; the durations such an
\* event carries are timing[id].wait_ms, .run_ms and .total_ms
SuccessTimings(id) ==
    SelectSeq(log, LAMBDA e : e.call = id /\ e.type = "OperationTiming" /\ e.success)

\* C26: for every successful gate-mediated call, over a monotonic clock, the
\* published OperationTiming has wait_ms >= 0, run_ms >= 0, total_ms >= 0
\* and wait_ms + run_ms <= total_ms; wait_ms is the time from requesting the
\* gate to admission and run_ms the time of the device call after admission
C26_TimingArithmetic ==
    \A id \in CallIds :
        SuccessTimings(id) # <<>> =>
            LET tm == timing[id] IN
            /\ tm.wait_ms >= 0
            /\ tm.run_ms >= 0
            /\ tm.total_ms >= 0
            /\ tm.wait_ms + tm.run_ms <= tm.total_ms
            /\ tm.start <= tm.lock_wait_start
            /\ tm.lock_wait_start <= tm.run_start
            /\ tm.wait_ms <= Ms(tm.lock_wait_start, tm.run_start)
            /\ tm.run_ms <= Ms(tm.run_start, now)

\* a successful call for which the clock advanced both between the request
\* for the gate and the admission and during the device call
C26_Witness ==
    \E id \in CallIds :
        /\ SuccessTimings(id) # <<>>
        /\ timing[id].wait_ms > 0
        /\ timing[id].run_ms > 0

(* ------------------------------ C27 ------------------------------------- *)
\* the number of events of a call that have the given type
Count(id, type) == Len(EventsOfType(id, type))

\* C27: a status read that fell back to a quick read inside the adapter is
\* one operation of the service: the gate is held across both round trips,
\* and the call publishes exactly one OperationTiming and one StatusUpdated
\* carrying the requested quick flag when the fallback succeeded, exactly one
\* OperationTiming(success=false) and one Error when it failed, and nothing
\* else
C27_FallbackIsOneOperation ==
    \A id \in fellBack :
        IF ~Ended(id)
        THEN /\ EventsOf(id) = <<>>
             /\ io_locked
             /\ pc[calls[id].task] = "running"
        ELSE /\ Count(id, "OperationTiming") = 1
             /\ Len(EventsOf(id)) = 2
             /\ EventsOf(id)[1].success = (calls[id].ret.kind = "ok")
             /\ IF calls[id].ret.kind = "ok"
                THEN /\ Count(id, "StatusUpdated") = 1
                     /\ EventsOf(id)[2].quick = calls[id].req.quick
                     /\ calls[id].st = "returned"
                ELSE /\ Count(id, "Error") = 1
                     /\ calls[id].st = "raised"

\* a full read (quick=false) fell back and succeeded, and another read fell
\* back and failed; both have published their events
C27_Witness ==
    \E id \in fellBack : \E id2 \in fellBack :
        /\ ~calls[id].req.quick
        /\ calls[id].st = "returned"
        /\ Count(id, "StatusUpdated") = 1
        /\ calls[id2].st = "raised"
        /\ Count(id2, "Error") = 1

(* ------------------------------ C28 ------------------------------------- *)
\* C28: no orphaned polling task: in every interleaving of start_polling and
\* stop_polling calls, every polling task that is alive is the one the
\* service references, so a later stop_polling stops it and at most one
\* polling loop runs
C28_NoOrphanedPoller ==
    /\ \A p \in AlivePollers : polling_task = p
    /\ Cardinality(AlivePollers) <= 1

(* ------------------------------ C29 ------------------------------------- *)
\* the events subscriber q has been handed by its generator, in that order
Received(q) == SubSeq(recv[q], 1, taken[q])

\* e comes before f in the sequence
Before(seq, e, f) ==
    \E i \in 1..Len(seq) : \E j \in 1..Len(seq) :
        i < j /\ seq[i] = e /\ seq[j] = f

\* C29: all subscribers agree on event order: any two events that two
\* subscribers both have in their queues (and so both receive) are in the
\* same relative order in the two queues, also when the poller and
\* interactive operations publish concurrently
C29_SubscribersAgree ==
    \A q \in Subs : \A r \in Subs :
        /\ \A i \in 1..Len(recv[q]) : \A j \in 1..Len(recv[q]) :
              i < j => ~Before(recv[r], recv[q][j], recv[q][i])
        /\ \A i \in 1..taken[q] : \A j \in 1..taken[q] :
              i < j => ~Before(Received(r), recv[q][j], recv[q][i])

\* both subscribers have received an event of the poller and an event of
\* the interactive caller
C29_Witness ==
    \E i \in 1..taken["q1"] : \E j \in 1..taken["q1"] :
        /\ calls[recv["q1"][i].call].task \in Pollers
        /\ calls[recv["q1"][j].call].task \in Callers
        /\ \E k \in 1..taken["q2"] : recv["q2"][k] = recv["q1"][i]
        /\ \E k \in 1..taken["q2"] : recv["q2"][k] = recv["q1"][j]

(* ------------------------------ C30 ------------------------------------- *)
\* the StatusUpdated events published so far
StatusUpdates == SelectSeq(log, LAMBDA e : e.type = "StatusUpdated")

\* C30: get_status stores the new status in latest_status before it
\* publishes StatusUpdated: when a StatusUpdated{status} is put into the
\* queues latest_status is set and holds that status, and latest_status
\* equals the status of the most recently published StatusUpdated
C30_SnapshotBeforeAnnouncement ==
    StatusUpdates # <<>> =>
        LET last == StatusUpdates[Len(StatusUpdates)] IN
        /\ announced # Unset
        /\ announced = last.status
        /\ latest_status = last.status

\* two status reads with different results have been announced, the second
\* by the poller
C30_Witness ==
    /\ Len(StatusUpdates) >= 2
    /\ StatusUpdates[1].status # StatusUpdates[Len(StatusUpdates)].status
    /\ calls[StatusUpdates[Len(StatusUpdates)].call].task \in Pollers
    /\ latest_status = StatusUpdates[Len(StatusUpdates)].status

(* ------------------------------ C31 ------------------------------------- *)
\* the device call of `id' raises into _run_blocking in this step
RaisesNow(id) == ~Ended(id) /\ calls'[id].st = "raised"

\* the step in which a call raises: it leaves the gate, reads the clock once
\* more for total_ms and publishes OperationTiming(success=false) with the
\* wait measured at its admission and a run duration of 0
C31_Step ==
    \A id \in CallIds :
        RaisesNow(id) =>
            LET tm == timing[id]
                tm2 == timing'[id]
            IN  /\ OperationTimingEvent(calls[id].req.name, FALSE, id)
                       \in {Published[i] : i \in 1..Len(Published)}
                /\ tm.run_start # Unbound
                /\ tm2.wait_ms = tm.wait_ms
                /\ tm.wait_ms \in {Ms(tm.lock_wait_start, t) :
                                      t \in tm.lock_wait_start..tm.run_start}
                /\ tm2.run_ms = 0
                /\ io_locked /\ ~io_locked'
                /\ now' >= now
                /\ tm2.total_ms = Ms(tm.start, now')

\* C31: when the adapter call raises, the published
\* OperationTiming(success=false) carries the measured gate wait as wait_ms
\* and run_ms = 0, and total_ms is measured after the gate has been released
C31_FailedCallTiming == [][C31_Step]_vars

\* a call has raised for which the clock advanced between the request for
\* the gate and the admission, and again before its total was read
C31_Witness ==
    \E id \in CallIds :
        /\ calls[id].st = "raised"
        /\ SuccessTimings(id) = <<>>
        /\ Count(id, "OperationTiming") = 1
        /\ timing[id].wait_ms > 0
        /\ timing[id].run_ms = 0
        /\ timing[id].total_ms > timing[id].wait_ms

====
